---- MODULE Spec2Model ----
(***************************************************************************)
(* Model of the vector retrieval and index-persistence layer of            *)
(* architecture-ai-suite: FAISSVectorStore (src/vector_store.py) driven by *)
(* an embedding provider (src/embeddings.py).                              *)
(*                                                                         *)
(* A Document is modelled by its page_content (its metadata travels with   *)
(* it and is never read by the store).  A vector is a tuple of integers    *)
(* and the distance is the squared L2 distance, as in faiss.IndexFlatL2.   *)
(***************************************************************************)
EXTENDS Integers, Sequences, FiniteSets, TLC

\* ------------------------------------------------------------------ bounds
\* most vectors an index may hold, largest k of a search
MaxN == 3
MaxK == 2
\* most save_local calls of the writer that readers run beside
MaxSaves == 2
\* longest text given to the splitter, largest chunk_size
MaxLen == 7
MaxChunk == 3

\* ------------------------------------------------------------- input sets
Texts == {"a", "b"}
Dims == {2, 3}
None == "None"

Min(x, y) == IF x < y THEN x ELSE y

\* the document batches a call is given: at most two documents
Batches == {<<>>} \cup {<<t>> : t \in Texts} \cup {<<t, u>> : t \in Texts, u \in Texts}

\* ------------------------------------------------------------- documents
\* text_utils.Document: kind "Our".  The stubs load_local unpickles legacy
\* records into: "Direct" has a page_content attribute, "Nested" keeps it in
\* an inner __dict__ entry of the instance state, "Foreign" has none, and
\* "Mixed" has both layouts, a page_content attribute that is None and an
\* inner __dict__ entry that holds the content.  `content` is the content the
\* record holds in the layout that has one (None when no layout has).
OurDocument(text) == [kind |-> "Our", content |-> text]

\* ------------------------------------------------------ embedding provider
\* The provider is an opaque function text -> vector.  Two texts at distance
\* 1 from each other; a provider of dimension d pads with zeros.
Coord(text) == IF text = "a" THEN <<0, 0>> ELSE <<1, 0>>

embed_query(text, d) == [i \in 1..d |-> IF i <= 2 THEN Coord(text)[i] ELSE 0]

\* What one provider call does: it raises, or it returns `rows` rows of
\* dimension `dim`; rows /= number of texts is a provider that drops or
\* repeats rows (an OpenAI-compatible proxy answering with a different number
\* of data items), "ragged" is rows of unequal length.
RepliesFor(texts) ==
    {[kind |-> "raise", rows |-> 0, dim |-> 0], [kind |-> "ragged", rows |-> 0, dim |-> 0]}
    \cup {[kind |-> "rows", rows |-> r, dim |-> d] :
            r \in 0..(IF Len(texts) = 0 THEN 0 ELSE Len(texts) + 1), d \in Dims}

\* the rows a "rows" reply holds for `texts`: row i embeds text i, a surplus
\* row repeats the last text
embed_documents(texts, reply) ==
    [i \in 1..reply.rows |-> embed_query(texts[Min(i, Len(texts))], reply.dim)]

\* ------------------------------------------------------------ vector index
\* faiss.IndexFlatL2: a dimension and the vectors in insertion order; slot s
\* (0-based) is vecs[s + 1].
SqDist(u, v) ==
    LET sq[i \in 0..Len(u)] ==
            IF i = 0 THEN 0 ELSE sq[i - 1] + (u[i] - v[i]) * (u[i] - v[i])
    IN  sq[Len(u)]

\* index.search(query, k): the k nearest slots by ascending distance (ties by
\* slot), padded with slot -1 when the index holds fewer than k vectors
IndexSearch(vecs, q, k) ==
    LET n == Len(vecs)
        dist(s) == SqDist(vecs[s + 1], q)
        rank(s) == Cardinality({t \in 0..(n - 1) :
                        dist(t) < dist(s) \/ (dist(t) = dist(s) /\ t < s)})
    IN  [i \in 1..k |->
            IF i <= n
            THEN LET s == CHOOSE s \in 0..(n - 1) : rank(s) = i - 1
                 IN  [idx |-> s, distance |-> dist(s)]
            ELSE [idx |-> -1, distance |-> -1]]

\* ------------------------------------------------------------ vector store
NoStore == [present |-> FALSE, dim |-> 0, vecs |-> <<>>, docstore |-> <<>>,
            index_to_docstore_id |-> <<>>]

Store(dim, vecs, docstore, i2d) ==
    [present |-> TRUE, dim |-> dim, vecs |-> vecs, docstore |-> docstore,
     index_to_docstore_id |-> i2d]

\* FAISSVectorStore(embeddings_provider): index is None (dim 0 stands for
\* "no index object"), docstore and mapping are empty
Constructed == Store(0, <<>>, <<>>, <<>>)

HasIndex(store) == store.dim /= 0

ntotal(store) == Len(store.vecs)

Result(outcome, store) == [outcome |-> outcome, store |-> store]

\* FAISSVectorStore.from_documents: the outcome and the store returned
from_documents(documents, reply) ==
    LET n == Len(documents) IN
    IF reply.kind = "raise" THEN Result("EmbeddingError", NoStore)
    ELSE IF reply.kind = "ragged" THEN Result("ValueError", NoStore)
    ELSE IF reply.rows = 0 THEN Result("IndexError", NoStore)
    ELSE Result("ok",
            Store(reply.dim,
                  embed_documents(documents, reply),
                  [i \in 0..(n - 1) |-> OurDocument(documents[i + 1])],
                  [i \in 0..(n - 1) |-> i]))

\* a docstore loop that numbers the new documents from 0
AddToDocstore_FromZero(docstore, current_count, documents) ==
    LET new == {i : i \in 0..(Len(documents) - 1)} IN
    [key \in DOMAIN docstore \cup new |->
        IF key \in new THEN OurDocument(documents[key + 1]) ELSE docstore[key]]

\* the docstore loop of add_documents: doc i goes to key current_count + i
AddToDocstore(docstore, current_count, documents) ==
    LET new == {current_count + i : i \in 0..(Len(documents) - 1)} IN
    [key \in DOMAIN docstore \cup new |->
        IF key \in new THEN OurDocument(documents[key - current_count + 1])
        ELSE docstore[key]]

AddToMapping(i2d, current_count, documents) ==
    LET new == {current_count + i : i \in 0..(Len(documents) - 1)} IN
    [key \in DOMAIN i2d \cup new |-> IF key \in new THEN key ELSE i2d[key]]

\* add_documents with the docstore loop placed before index.add
add_documents_docstore_first(store, documents, reply) ==
    IF Len(documents) = 0 THEN Result("ok", store)
    ELSE IF reply.kind = "raise" THEN Result("EmbeddingError", store)
    ELSE IF reply.kind = "ragged" THEN Result("ValueError", store)
    ELSE IF ~HasIndex(store) THEN Result("AttributeError", store)
    ELSE LET current_count == ntotal(store)
             written == Store(store.dim, store.vecs,
                          AddToDocstore(store.docstore, current_count, documents),
                          AddToMapping(store.index_to_docstore_id, current_count, documents))
         IN  IF reply.rows = 0 THEN Result("ValueError", written)
             ELSE IF reply.dim /= store.dim THEN Result("DimensionMismatch", written)
             ELSE Result("ok",
                    [written EXCEPT !.vecs = store.vecs \o embed_documents(documents, reply)])

\* add_documents with the failure of index.add caught and ignored
add_documents_swallow(store, documents, reply) ==
    IF Len(documents) = 0 THEN Result("ok", store)
    ELSE IF reply.kind = "raise" THEN Result("EmbeddingError", store)
    ELSE IF reply.kind = "ragged" THEN Result("ValueError", store)
    ELSE IF ~HasIndex(store) THEN Result("AttributeError", store)
    ELSE LET current_count == ntotal(store)
             added == IF reply.rows = 0 \/ reply.dim /= store.dim THEN <<>>
                      ELSE embed_documents(documents, reply)
         IN  Result("ok",
                Store(store.dim, store.vecs \o added,
                      AddToDocstore(store.docstore, current_count, documents),
                      AddToMapping(store.index_to_docstore_id, current_count, documents)))

\* FAISSVectorStore.add_documents: the outcome and the store afterwards
add_documents(store, documents, reply) ==
    IF Len(documents) = 0 THEN Result("ok", store)
    ELSE IF reply.kind = "raise" THEN Result("EmbeddingError", store)
    ELSE IF reply.kind = "ragged" THEN Result("ValueError", store)
    ELSE IF ~HasIndex(store) THEN Result("AttributeError", store)
    ELSE IF reply.rows = 0 THEN Result("ValueError", store)
    ELSE IF reply.dim /= store.dim THEN Result("DimensionMismatch", store)
    ELSE LET current_count == ntotal(store) IN
         Result("ok",
            Store(store.dim,
                  store.vecs \o embed_documents(documents, reply),
                  AddToDocstore(store.docstore, current_count, documents),
                  AddToMapping(store.index_to_docstore_id, current_count, documents)))

\* a result loop that also skips slot 0
KeepHit_SkipsZero(store, hit) ==
    /\ ~(hit.idx <= 0 \/ hit.idx >= Cardinality(DOMAIN store.docstore))
    /\ LET i2d == store.index_to_docstore_id
           doc_id == IF hit.idx \in DOMAIN i2d THEN i2d[hit.idx] ELSE hit.idx
       IN  doc_id \in DOMAIN store.docstore

\* the result loop of similarity_search_with_score over the index's hits
KeepHit(store, hit) ==
    /\ ~(hit.idx < 0 \/ hit.idx >= Cardinality(DOMAIN store.docstore))
    /\ LET i2d == store.index_to_docstore_id
           doc_id == IF hit.idx \in DOMAIN i2d THEN i2d[hit.idx] ELSE hit.idx
       IN  doc_id \in DOMAIN store.docstore

ResolveHit(store, hit) ==
    LET i2d == store.index_to_docstore_id
        doc_id == IF hit.idx \in DOMAIN i2d THEN i2d[hit.idx] ELSE hit.idx
    IN  [doc |-> store.docstore[doc_id], distance |-> hit.distance]

\* a search that returns every slot of the index, an empty chunk standing
\* for the slots that resolve to none
similarity_search_with_score_placeholder(store, query, k) ==
    LET hits == IndexSearch(store.vecs, embed_query(query, store.dim), k)
        Found(hit) == hit.idx >= 0
        kept == SelectSeq(hits, Found)
    IN  [i \in 1..Len(kept) |->
            IF KeepHit(store, kept[i]) THEN ResolveHit(store, kept[i])
            ELSE [doc |-> OurDocument(""), distance |-> kept[i].distance]]

\* FAISSVectorStore.similarity_search_with_score for a query whose embedding
\* has the index's dimension
similarity_search_with_score(store, query, k) ==
    LET hits == IndexSearch(store.vecs, embed_query(query, store.dim), k)
        Keep(hit) == KeepHit(store, hit)
        kept == SelectSeq(hits, Keep)
    IN  [i \in 1..Len(kept) |-> ResolveHit(store, kept[i])]

\* FAISSVectorStore.similarity_search: the documents without the scores
similarity_search(store, query, k) ==
    LET results_with_scores == similarity_search_with_score(store, query, k)
    IN  [i \in 1..Len(results_with_scores) |-> results_with_scores[i].doc]

\* ------------------------------------------------------------- persistence
\* The directory: index.faiss (the index's native form) and index.pkl (the
\* pickled metadata).  fmt "dict" is what save_local writes; fmt "tuple" is
\* the LangChain shape (docstore, index_to_docstore_id), whose docstore is an
\* InMemoryDocstore (wrapped) keyed by opaque ids.  state "corrupt" is a
\* metadata file that pickle.dump left truncated.
NoIndexFile == [present |-> FALSE, dim |-> 0, vecs |-> <<>>]

NoMetaFile == [state |-> "none", fmt |-> "dict", wrapped |-> FALSE,
               docstore |-> <<>>, index_to_docstore_id |-> <<>>]

CorruptMetaFile == [NoMetaFile EXCEPT !.state = "corrupt"]

EmptyDir == [index |-> NoIndexFile, meta |-> NoMetaFile]

\* faiss.write_index / faiss.read_index
write_index(store) == [present |-> TRUE, dim |-> store.dim, vecs |-> store.vecs]

\* pickle can dump text_utils.Document; the classes load_local declares
\* locally (the stubs of legacy records) cannot be pickled
Picklable(docstore) == \A key \in DOMAIN docstore : docstore[key].kind = "Our"

\* FAISSVectorStore.save_local: the outcome and the directory afterwards
save_local(store, dir) ==
    IF Picklable(store.docstore)
    THEN [outcome |-> "ok",
          dir |-> [index |-> write_index(store),
                   meta |-> [state |-> "ok", fmt |-> "dict", wrapped |-> FALSE,
                             docstore |-> store.docstore,
                             index_to_docstore_id |-> store.index_to_docstore_id]]]
    ELSE [outcome |-> "PicklingError",
          dir |-> [index |-> write_index(store), meta |-> CorruptMetaFile]]

\* a rebuild that pairs slot s with the s-th record of the InMemoryDocstore
RebuildDocstore_ByPosition(meta) ==
    IF meta.wrapped
    THEN LET i2d == meta.index_to_docstore_id
             ids == DOMAIN meta.docstore
             nth(s) == CHOOSE id \in ids : Cardinality({j \in ids : j < id}) = s
         IN  [idx \in {s \in DOMAIN i2d : s < Cardinality(ids)} |-> meta.docstore[nth(idx)]]
    ELSE meta.docstore

\* load_local, "Handle different docstore formats": an InMemoryDocstore is
\* re-keyed by slot through the mapping, a dict is taken as it is
RebuildDocstore(meta) ==
    IF meta.wrapped
    THEN LET i2d == meta.index_to_docstore_id
             found == {idx \in DOMAIN i2d : i2d[idx] \in DOMAIN meta.docstore}
         IN  [idx \in found |-> meta.docstore[i2d[idx]]]
    ELSE meta.docstore

\* the layouts of a record: hasattr(value, 'page_content') with the value of
\* the attribute, and 'page_content' in value.__dict__['__dict__'] with the
\* value of the entry
HasAttribute(value) == value.kind \in {"Our", "Direct", "Mixed"}

AttributeValue(value) == IF value.kind = "Mixed" THEN None ELSE value.content

HasNestedField(value) == value.kind \in {"Nested", "Mixed"}

NestedFieldValue(value) == value.content

\* load_local, is_document: some layout of the value holds a page_content
IsDocument(value) == HasAttribute(value) \/ HasNestedField(value)

\* a conversion that probes the nested layout first, for every document
ConvertValue_NestedFirst(value) ==
    IF ~IsDocument(value) THEN value
    ELSE IF value.kind = "Nested"
         THEN IF value.content /= None THEN OurDocument(value.content) ELSE value
    ELSE OurDocument("")

\* load_local, "Try different ways to extract page_content": the first
\* layout the value has is read (Method 1 the attribute, Method 3 the nested
\* dictionary; Method 2 has the condition of Method 1 and is never taken)
ExtractPageContent(value) ==
    IF HasAttribute(value) THEN AttributeValue(value)
    ELSE IF HasNestedField(value) THEN NestedFieldValue(value)
    ELSE None

\* load_local, conversion of one docstore value to text_utils.Document
ConvertValue(value) ==
    IF IsDocument(value) /\ value.kind /= "Our" /\ ExtractPageContent(value) /= None
    THEN OurDocument(ExtractPageContent(value))
    ELSE value

ConvertDocstore(docstore) ==
    [key \in DOMAIN docstore |-> ConvertValue(docstore[key])]

\* load_local's local variable `metadata` after the conversion loop: the loop
\* rebinds it for every value it converts, so it is still the unpickled tuple
\* only when no value went through the conversion
MetadataIsTuple(meta, docstore) ==
    /\ meta.fmt = "tuple"
    /\ \A key \in DOMAIN docstore :
          ~(IsDocument(docstore[key]) /\ docstore[key].kind /= "Our")

\* a load that takes a missing metadata file for an empty Document Store
load_local_missing_meta_as_empty(dir, allow_dangerous_deserialization) ==
    IF ~allow_dangerous_deserialization THEN Result("ValueError", NoStore)
    ELSE IF ~dir.index.present THEN Result("FileNotFoundError", NoStore)
    ELSE IF dir.meta.state = "none"
         THEN Result("ok", Store(dir.index.dim, dir.index.vecs, <<>>, <<>>))
    ELSE IF dir.meta.state = "corrupt" THEN Result("UnpicklingError", NoStore)
    ELSE LET docstore == RebuildDocstore(dir.meta)
             converted_docstore == ConvertDocstore(docstore)
             n == Cardinality(DOMAIN converted_docstore)
             i2d == IF MetadataIsTuple(dir.meta, docstore)
                    THEN [i \in 0..(n - 1) |-> i]
                    ELSE dir.meta.index_to_docstore_id
         IN  Result("ok",
                Store(dir.index.dim, dir.index.vecs, converted_docstore, i2d))

\* FAISSVectorStore.load_local: the outcome and the store returned
load_local(dir, allow_dangerous_deserialization) ==
    IF ~allow_dangerous_deserialization THEN Result("ValueError", NoStore)
    ELSE IF ~dir.index.present THEN Result("FileNotFoundError", NoStore)
    ELSE IF dir.meta.state = "none" THEN Result("FileNotFoundError", NoStore)
    ELSE IF dir.meta.state = "corrupt" THEN Result("UnpicklingError", NoStore)
    ELSE LET docstore == RebuildDocstore(dir.meta)
             converted_docstore == ConvertDocstore(docstore)
             n == Cardinality(DOMAIN converted_docstore)
             i2d == IF MetadataIsTuple(dir.meta, docstore)
                    THEN [i \in 0..(n - 1) |-> i]
                    ELSE dir.meta.index_to_docstore_id
         IN  Result("ok",
                Store(dir.index.dim, dir.index.vecs, converted_docstore, i2d))

\* ---------------------------------------------------------- legacy fixtures
\* Directories written by the LangChain generation of the system: record u
\* of the docstore has opaque id Uuid(u); the mapping sends slot s to the
\* record order[s + 1].
Uuid(u) == 100 + u

LegacyText(u) == IF u = 1 THEN "a" ELSE "b"

LegacyRecords(u) ==
    {[kind |-> "Direct", content |-> LegacyText(u)],
     [kind |-> "Nested", content |-> LegacyText(u)],
     [kind |-> "Nested", content |-> None],
     [kind |-> "Mixed", content |-> LegacyText(u)],
     [kind |-> "Foreign", content |-> None]}

LegacyDir(order, records) ==
    [index |-> [present |-> TRUE, dim |-> 2,
                vecs |-> [i \in 1..Len(order) |-> embed_query(LegacyText(order[i]), 2)]],
     meta |-> [state |-> "ok", fmt |-> "tuple", wrapped |-> TRUE,
               docstore |-> [id \in {Uuid(order[i]) : i \in 1..Len(order)} |->
                                records[id - 100]],
               index_to_docstore_id |-> [s \in 0..(Len(order) - 1) |-> Uuid(order[s + 1])]]]

\* two records, slot 0 -> record 2 and slot 1 -> record 1; record 2 is of
\* the "Direct" layout, or both records are "Foreign"
LegacyDirs ==
    {LegacyDir(<<2, 1>>, <<r1, r2>>) :
        r1 \in LegacyRecords(1),
        r2 \in {r \in LegacyRecords(2) : r.kind = "Direct"}}
    \cup {LegacyDir(<<2, 1>>, <<r, r>>) :
            r \in {r \in LegacyRecords(2) : r.kind = "Foreign"}}

\* a legacy directory whose records have all been deleted: an index of no
\* vector, an empty InMemoryDocstore and an empty mapping
EmptyLegacyDir ==
    [index |-> [present |-> TRUE, dim |-> 2, vecs |-> <<>>],
     meta |-> [state |-> "ok", fmt |-> "tuple", wrapped |-> TRUE,
               docstore |-> <<>>, index_to_docstore_id |-> <<>>]]

\* legacy directories whose mapping names a record the InMemoryDocstore
\* does not hold: two vectors, slot 0 -> the missing record 2, slot 1 ->
\* record 1
DanglingLegacyDirs ==
    {[index |-> [present |-> TRUE, dim |-> 2,
                 vecs |-> <<embed_query("b", 2), embed_query("a", 2)>>],
      meta |-> [state |-> "ok", fmt |-> "tuple", wrapped |-> TRUE,
                docstore |-> [id \in {Uuid(1)} |-> r],
                index_to_docstore_id |-> [s \in {0, 1} |-> Uuid(2 - s)]]] :
        r \in {r \in LegacyRecords(1) : r.kind \in {"Direct", "Foreign"}}}

\* directories that hold one of the two files only
PartialDirs ==
    {[index |-> [present |-> TRUE, dim |-> 2, vecs |-> <<embed_query("a", 2)>>],
      meta |-> NoMetaFile],
     [index |-> NoIndexFile,
      meta |-> [state |-> "ok", fmt |-> "dict", wrapped |-> FALSE,
                docstore |-> [s \in {0} |-> OurDocument("a")],
                index_to_docstore_id |-> [s \in {0} |-> 0]]]}

\* ------------------------------------------------------------------- state
\* vs: the store the process holds; disk: the index directory.
\* Records of what has happened, which the program does not read:
\*   last    the last call, see NoCall;
\*   saved   the store as it was when save_local last completed on disk
\*           (NoStore when disk was not written by a completed save_local);
\*   merge   how far a load / add / save / load round has come, see MergeStep.
\* rw: a save_local call in progress and a second process that loads the
\* directory meanwhile, see NoRW (used by SpecRW only).
\* split: a TextSplitter, the text of the document it is given and the
\* chunks split_documents returned (used by SpecSplit only).
VARIABLES vs, disk, last, saved, merge, rw, split, app, rerank

vars == <<vs, disk, last, saved, merge, rw, split, app, rerank>>

\* last: the call (op), how it ended (outcome: "ok" or the error raised), what
\* the provider did in it (reply: "none" when it was not called, "raise",
\* "ragged", "empty" for no row, "rows"; rows_match: it returned one row per
\* document; dim_match: its rows have the dimension of the index, if there is
\* an index object), the documents
\* of a completed from_documents / add_documents call, and the arguments of
\* a search that returned.
NoCall == [op |-> "none", outcome |-> "ok", reply |-> "none",
           rows_match |-> TRUE, dim_match |-> TRUE, documents |-> <<>>,
           query |-> None, k |-> 0]

PlainCall(op, outcome) == [NoCall EXCEPT !.op = op, !.outcome = outcome]

Call(op, outcome, documents, reply, dim) ==
    IF Len(documents) = 0 /\ op = "add_documents" THEN PlainCall(op, outcome)
    ELSE [PlainCall(op, outcome) EXCEPT
            !.reply = IF reply.kind = "rows" /\ reply.rows = 0 THEN "empty"
                      ELSE reply.kind,
            !.rows_match = (reply.kind = "rows" /\ reply.rows = Len(documents)),
            !.dim_match = (reply.kind = "rows" /\ reply.dim = dim),
            !.documents = IF outcome = "ok" THEN documents ELSE <<>>]

\* an index of n >= 1 chunks: n vectors, and slot s resolves to chunk s
Aligned(store) ==
    /\ store.present
    /\ ntotal(store) >= 1
    /\ DOMAIN store.docstore = 0..(ntotal(store) - 1)
    /\ \A s \in 0..(ntotal(store) - 1) :
          s \in DOMAIN store.index_to_docstore_id
              => store.index_to_docstore_id[s] = s

Contents(store) ==
    [i \in 1..ntotal(store) |-> store.docstore[i - 1].content]

NoMerge == [phase |-> "none", base |-> <<>>, new |-> <<>>]

\* the round "load a saved index of n chunks, add m chunks, save, load":
\* base is the chunks of the saved index, new the chunks added
MergeStep(op, outcome, documents) ==
    IF outcome /= "ok" \/ op = "similarity_search_with_score" THEN merge
    ELSE IF op = "load_local" /\ merge.phase = "saved"
         THEN [merge EXCEPT !.phase = "reloaded"]
    ELSE IF op = "load_local" /\ Aligned(saved)
         THEN [phase |-> "loaded", base |-> Contents(saved), new |-> <<>>]
    ELSE IF op = "add_documents" /\ merge.phase = "loaded"
         THEN [merge EXCEPT !.phase = "added", !.new = documents]
    ELSE IF op = "save_local" /\ merge.phase = "added"
         THEN [merge EXCEPT !.phase = "saved"]
    ELSE NoMerge

\* rw.writer: where the writer is in save_local ("idle": not in it,
\* "index_written": after faiss.write_index, "meta_open": after open(.., 'wb'));
\* rw.call: the number of save_local calls begun; rw.stamp: the call that
\* wrote each file of the directory (0: none); rw.reader: the loading
\* process, pc "index_read" between faiss.read_index and the unpickling, the
\* index it read, the stamps of the files it read, and what its last
\* load_local returned.
NoReader == [pc |-> "idle", index |-> NoIndexFile,
             seen |-> [index |-> 0, meta |-> 0],
             outcome |-> "none", store |-> NoStore]

NoSplit == [text |-> <<>>, chunk_size |-> 1, chunk_overlap |-> 0,
            done |-> FALSE, chunks |-> <<>>]

\* brain._vectorstore holding None
NoVectorstore == [present |-> FALSE, path |-> None, chunks |-> <<>>]

\* a path with no index directory
NoDirectory == [exists |-> FALSE, readable |-> FALSE, chunks |-> <<>>]

\* the record of one call of an ingestion entry point, of a sidebar handler
\* or of load_faiss_index
NoAppCall == [op |-> "none", outcome |-> "none", success |-> FALSE,
              merge |-> FALSE, previous |-> NoDirectory, new |-> <<>>,
              index_path |-> None, store |-> NoVectorstore,
              had_cache |-> FALSE,
              before |-> [op |-> "none", success |-> FALSE, had_cache |-> FALSE]]

NoApp == [files |-> [p \in {"faiss_index", "other_index"} |-> NoDirectory],
          vectorstore |-> NoVectorstore, call |-> NoAppCall]

NoRerank == [docs |-> <<>>, question |-> <<>>, done |-> FALSE, result |-> <<>>]

NoRW == [writer |-> "idle", call |-> 0, stamp |-> [index |-> 0, meta |-> 0],
         reader |-> NoReader]

Init ==
    /\ vs = NoStore
    /\ disk \in {EmptyDir, EmptyLegacyDir} \cup LegacyDirs \cup DanglingLegacyDirs
                \cup PartialDirs
    /\ last = NoCall
    /\ saved = NoStore
    /\ merge = NoMerge
    /\ rw = NoRW
    /\ split = NoSplit
    /\ app = NoApp
    /\ rerank = NoRerank

\* the constructor called with the provider alone
Construct ==
    /\ ~vs.present
    /\ vs' = Constructed
    /\ last' = PlainCall("__init__", "ok")
    /\ merge' = NoMerge
    /\ UNCHANGED <<disk, saved, rw, split, app, rerank>>

FromDocuments ==
    /\ ~vs.present
    /\ \E documents \in Batches : \E reply \in RepliesFor(documents) :
        LET r == from_documents(documents, reply) IN
        /\ reply.kind = "rows" => reply.rows <= MaxN
        /\ vs' = IF r.outcome = "ok" THEN r.store ELSE vs
        /\ last' = Call("from_documents", r.outcome, documents, reply, reply.dim)
        /\ merge' = MergeStep("from_documents", r.outcome, documents)
    /\ UNCHANGED <<disk, saved, rw, split, app, rerank>>

AddDocuments ==
    /\ vs.present
    /\ \E documents \in Batches : \E reply \in RepliesFor(documents) :
        LET r == add_documents(vs, documents, reply) IN
        /\ reply.kind = "rows" => ntotal(vs) + reply.rows <= MaxN
        /\ vs' = r.store
        /\ last' = Call("add_documents", r.outcome, documents, reply,
                         IF HasIndex(vs) THEN vs.dim ELSE reply.dim)
        /\ merge' = MergeStep("add_documents", r.outcome, documents)
    /\ UNCHANGED <<disk, saved, rw, split, app, rerank>>

\* a search that enters the slots it resolved into the slot mapping
\* (index_to_docstore_id.setdefault in place of .get)
Search_RecordsSlots ==
    /\ vs.present
    /\ \E query \in Texts : \E k \in 1..MaxK : \E d \in {0} \cup Dims :
        LET outcome == IF d = 0 THEN "EmbeddingError"
                       ELSE IF ~HasIndex(vs) THEN "AttributeError"
                       ELSE IF d /= vs.dim THEN "DimensionMismatch" ELSE "ok"
            call == [PlainCall("similarity_search_with_score", outcome) EXCEPT
                        !.reply = IF d = 0 THEN "raise" ELSE "rows",
                        !.dim_match = (d = vs.dim \/ ~HasIndex(vs))]
            hits == IndexSearch(vs.vecs, embed_query(query, vs.dim), k)
            seen == {hits[i].idx : i \in 1..Len(hits)}
                        \cap (0..(Cardinality(DOMAIN vs.docstore) - 1))
            i2d == vs.index_to_docstore_id
        IN  /\ last' = IF outcome = "ok"
                       THEN [call EXCEPT !.query = query, !.k = k]
                       ELSE call
            /\ vs' = IF outcome = "ok"
                     THEN [vs EXCEPT !.index_to_docstore_id =
                              [s \in DOMAIN i2d \cup seen |->
                                  IF s \in DOMAIN i2d THEN i2d[s] ELSE s]]
                     ELSE vs
    /\ UNCHANGED <<disk, saved, merge, rw, split, app, rerank>>

\* the embedding of the query: the provider raises (d = 0) or answers with a
\* vector of dimension d, which index.search refuses unless it is the index's;
\* a store without index object has nothing to call search on
Search ==
    /\ vs.present
    /\ \E query \in Texts : \E k \in 1..MaxK : \E d \in {0} \cup Dims :
        LET outcome == IF d = 0 THEN "EmbeddingError"
                       ELSE IF ~HasIndex(vs) THEN "AttributeError"
                       ELSE IF d /= vs.dim THEN "DimensionMismatch" ELSE "ok"
            call == [PlainCall("similarity_search_with_score", outcome) EXCEPT
                        !.reply = IF d = 0 THEN "raise" ELSE "rows",
                        !.dim_match = (d = vs.dim \/ ~HasIndex(vs))]
        IN  last' = IF outcome = "ok"
                    THEN [call EXCEPT !.query = query, !.k = k]
                    ELSE call
    /\ UNCHANGED <<vs, disk, saved, merge, rw, split, app, rerank>>

\* what the last search returned: the store has not changed since
SearchResult == similarity_search_with_score(vs, last.query, last.k)

\* save_local of a store that has an index object (what faiss.write_index
\* does with None depends on the faiss build)
SaveLocal ==
    /\ vs.present /\ HasIndex(vs)
    /\ LET r == save_local(vs, disk) IN
        /\ disk' = r.dir
        /\ last' = PlainCall("save_local", r.outcome)
        /\ saved' = IF r.outcome = "ok" THEN vs ELSE NoStore
        /\ merge' = MergeStep("save_local", r.outcome, <<>>)
    /\ UNCHANGED <<vs, rw, split, app, rerank>>

LoadLocal ==
    \E allow \in BOOLEAN :
        LET r == load_local(disk, allow) IN
        /\ vs' = IF r.outcome = "ok" THEN r.store ELSE vs
        /\ last' = PlainCall("load_local", r.outcome)
        /\ merge' = MergeStep("load_local", r.outcome, <<>>)
        /\ UNCHANGED <<disk, saved, rw, split, app, rerank>>

Next ==
    \/ Construct
    \/ FromDocuments
    \/ AddDocuments
    \/ Search
    \/ SaveLocal
    \/ LoadLocal

Spec == Init /\ [][Next]_vars

\* ------------------------------------------- save_local beside load_local
\* One process ingests and saves (the writer, whose store is vs), another
\* loads the same directory (the reader).  save_local and load_local take
\* no lock and write the files in place, so their file operations interleave.
InitRW ==
    /\ vs = NoStore
    /\ disk = EmptyDir
    /\ last = NoCall
    /\ saved = NoStore
    /\ merge = NoMerge
    /\ rw = NoRW
    /\ split = NoSplit
    /\ app = NoApp
    /\ rerank = NoRerank

\* the writer builds its store, or extends it, with one chunk; its provider
\* returns one row of dimension 2 per chunk
WriterIngest ==
    /\ rw.writer = "idle"
    /\ ntotal(vs) < MaxN
    /\ \E text \in Texts :
        LET reply == [kind |-> "rows", rows |-> 1, dim |-> 2]
            r == IF vs.present THEN add_documents(vs, <<text>>, reply)
                 ELSE from_documents(<<text>>, reply)
        IN  vs' = r.store
    /\ UNCHANGED <<disk, last, saved, merge, rw, split, app, rerank>>

\* save_local, faiss.write_index(self.index, index_file)
SaveWriteIndex ==
    /\ vs.present /\ rw.writer = "idle" /\ rw.call < MaxSaves
    /\ disk' = [disk EXCEPT !.index = write_index(vs)]
    /\ rw' = [rw EXCEPT !.writer = "index_written", !.call = rw.call + 1,
                        !.stamp.index = rw.call + 1]
    /\ UNCHANGED <<vs, last, saved, merge, split, app, rerank>>

\* save_local, open(metadata_file, 'wb'): the file is created or truncated
SaveOpenMeta ==
    /\ rw.writer = "index_written"
    /\ disk' = [disk EXCEPT !.meta = CorruptMetaFile]
    /\ rw' = [rw EXCEPT !.writer = "meta_open", !.stamp.meta = rw.call]
    /\ UNCHANGED <<vs, last, saved, merge, split, app, rerank>>

\* save_local, pickle.dump(metadata, f) and the end of the with block
SaveDumpMeta ==
    /\ rw.writer = "meta_open"
    /\ disk' = [disk EXCEPT !.meta = save_local(vs, disk).dir.meta]
    /\ rw' = [rw EXCEPT !.writer = "idle"]
    /\ UNCHANGED <<vs, last, saved, merge, split, app, rerank>>

\* load_local up to faiss.read_index(index_file)
ReaderReadIndex ==
    /\ rw.reader.pc = "idle"
    /\ rw' = IF disk.index.present
             THEN [rw EXCEPT !.reader = [pc |-> "index_read", index |-> disk.index,
                                         seen |-> [index |-> rw.stamp.index, meta |-> 0],
                                         outcome |-> "none", store |-> NoStore]]
             ELSE [rw EXCEPT !.reader = [NoReader EXCEPT
                        !.outcome = load_local(disk, TRUE).outcome]]
    /\ UNCHANGED <<vs, disk, last, saved, merge, split, app, rerank>>

\* load_local from the check of the metadata file to its return
ReaderReadMeta ==
    /\ rw.reader.pc = "index_read"
    /\ LET r == load_local([index |-> rw.reader.index, meta |-> disk.meta], TRUE)
       IN  rw' = [rw EXCEPT !.reader.pc = "idle",
                            !.reader.seen.meta = rw.stamp.meta,
                            !.reader.outcome = r.outcome,
                            !.reader.store = r.store]
    /\ UNCHANGED <<vs, disk, last, saved, merge, split, app, rerank>>

NextRW ==
    \/ WriterIngest
    \/ SaveWriteIndex
    \/ SaveOpenMeta
    \/ SaveDumpMeta
    \/ ReaderReadIndex
    \/ ReaderReadMeta

SpecRW == InitRW /\ [][NextRW]_vars

\* ------------------------------------------------------------ text splitter
\* text_utils.TextSplitter.  A text is a sequence of characters.
Chars == {"x", " ", "\n"}

Whitespace == {" ", "\n"}

\* TextSplitter.__init__, the default separators
separators == << <<"\n", "\n">>, <<"\n">>, <<" ">>, <<>> >>

\* str.split(sep) for a separator of one character or more: the pieces
\* between the occurrences of sep, found from the left
RECURSIVE StrSplit(_, _)
StrSplit(text, sep) ==
    LET at == {i \in 1..(Len(text) - Len(sep) + 1) :
                  SubSeq(text, i, i + Len(sep) - 1) = sep}
    IN  IF at = {} THEN <<text>>
        ELSE LET i == CHOOSE j \in at : \A m \in at : j <= m
             IN  <<SubSeq(text, 1, i - 1)>>
                    \o StrSplit(SubSeq(text, i + Len(sep), Len(text)), sep)

\* sep.join(pieces)
StrJoin(pieces, sep) ==
    LET joined[i \in 0..Len(pieces)] ==
            IF i = 0 THEN <<>>
            ELSE IF i = 1 THEN pieces[1]
            ELSE joined[i - 1] \o sep \o pieces[i]
    IN  joined[Len(pieces)]

\* chunk.strip(): what is left is empty iff every character is whitespace
StripsToEmpty(chunk) == \A i \in 1..Len(chunk) : chunk[i] \in Whitespace

\* TextSplitter._split_by_size
split_by_size(text, chunk_size) ==
    [j \in 1..((Len(text) + chunk_size - 1) \div chunk_size) |->
        SubSeq(text, (j - 1) * chunk_size + 1, Min(j * chunk_size, Len(text)))]

\* TextSplitter.split_text, _split_text_recursive
RECURSIVE split_text_recursive(_, _, _)
split_text_recursive(text, seps, chunk_size) ==
    IF seps = <<>> THEN split_by_size(text, chunk_size)
    ELSE LET separator == Head(seps)
             remaining_separators == Tail(seps)
         IN  IF separator = <<>> THEN split_by_size(text, chunk_size)
             ELSE LET splits == StrSplit(text, separator)
                      good_splits[i \in 0..Len(splits)] ==
                          IF i = 0 THEN <<>>
                          ELSE IF Len(splits[i]) <= chunk_size
                               THEN Append(good_splits[i - 1], splits[i])
                          ELSE good_splits[i - 1]
                                  \o split_text_recursive(splits[i],
                                        remaining_separators, chunk_size)
                  IN  good_splits[Len(splits)]

\* TextSplitter._join_chunks
join_chunks(chunks) ==
    IF \E i \in 1..Len(separators) : separators[i] = <<" ">>
    THEN StrJoin(chunks, <<" ">>)
    ELSE StrJoin(chunks, <<>>)

\* chunk_text[-chunk_overlap:] if len(chunk_text) > chunk_overlap else
\* chunk_text; the slice [-0:] is the whole text
OverlapText(chunk_text, chunk_overlap) ==
    IF Len(chunk_text) > chunk_overlap /\ chunk_overlap > 0
    THEN SubSeq(chunk_text, Len(chunk_text) - chunk_overlap + 1, Len(chunk_text))
    ELSE chunk_text

\* a merge that returns the chunks without dropping the blank ones
merge_splits_unfiltered(splits, chunk_size, chunk_overlap) ==
    LET step[i \in 0..Len(splits)] ==
            IF i = 0
            THEN [chunks |-> <<>>, current_chunk |-> <<>>, current_length |-> 0]
            ELSE LET st == step[i - 1]
                     piece == splits[i]
                     split_length == Len(piece)
                 IN  IF st.current_length + split_length > chunk_size
                            /\ st.current_chunk /= <<>>
                     THEN LET chunk_text == join_chunks(st.current_chunk)
                              overlap_text == OverlapText(chunk_text, chunk_overlap)
                          IN  [chunks |-> Append(st.chunks, chunk_text),
                               current_chunk |->
                                   IF overlap_text /= <<>> /\ piece /= <<>>
                                   THEN <<overlap_text, piece>> ELSE <<piece>>,
                               current_length |-> Len(overlap_text) + split_length]
                     ELSE [chunks |-> st.chunks,
                           current_chunk |-> Append(st.current_chunk, piece),
                           current_length |-> st.current_length + split_length]
        end == step[Len(splits)]
    IN  IF end.current_chunk /= <<>>
        THEN Append(end.chunks, join_chunks(end.current_chunk))
        ELSE end.chunks

\* TextSplitter._merge_splits
merge_splits(splits, chunk_size, chunk_overlap) ==
    LET step[i \in 0..Len(splits)] ==
            IF i = 0
            THEN [chunks |-> <<>>, current_chunk |-> <<>>, current_length |-> 0]
            ELSE LET st == step[i - 1]
                     piece == splits[i]
                     split_length == Len(piece)
                 IN  IF st.current_length + split_length > chunk_size
                            /\ st.current_chunk /= <<>>
                     THEN LET chunk_text == join_chunks(st.current_chunk)
                              overlap_text == OverlapText(chunk_text, chunk_overlap)
                          IN  [chunks |-> Append(st.chunks, chunk_text),
                               current_chunk |->
                                   IF overlap_text /= <<>> /\ piece /= <<>>
                                   THEN <<overlap_text, piece>> ELSE <<piece>>,
                               current_length |-> Len(overlap_text) + split_length]
                     ELSE [chunks |-> st.chunks,
                           current_chunk |-> Append(st.current_chunk, piece),
                           current_length |-> st.current_length + split_length]
        end == step[Len(splits)]
        chunks == IF end.current_chunk /= <<>>
                  THEN Append(end.chunks, join_chunks(end.current_chunk))
                  ELSE end.chunks
        Kept(chunk) == ~StripsToEmpty(chunk)
    IN  SelectSeq(chunks, Kept)

\* TextSplitter.split_text
split_text(text, chunk_size, chunk_overlap) ==
    merge_splits(split_text_recursive(text, separators, chunk_size),
                 chunk_size, chunk_overlap)

\* TextSplitter.split_documents: the page_content of the chunks, in order
split_documents(documents, chunk_size, chunk_overlap) ==
    LET chunks[i \in 0..Len(documents)] ==
            IF i = 0 THEN <<>>
            ELSE chunks[i - 1] \o split_text(documents[i], chunk_size, chunk_overlap)
    IN  chunks[Len(documents)]

\* a splitter as TextSplitter(chunk_size, chunk_overlap) makes it (__init__
\* stores the two numbers as they are given) and the text of one document
InitSplit ==
    /\ vs = NoStore
    /\ disk = EmptyDir
    /\ last = NoCall
    /\ saved = NoStore
    /\ merge = NoMerge
    /\ rw = NoRW
    /\ app = NoApp
    /\ rerank = NoRerank
    /\ \E n \in 0..MaxLen : \E text \in [1..n -> Chars] :
       \E chunk_size \in 1..MaxChunk : \E chunk_overlap \in 0..MaxChunk :
          split = [text |-> text, chunk_size |-> chunk_size,
                   chunk_overlap |-> chunk_overlap, done |-> FALSE, chunks |-> <<>>]

SplitDocuments ==
    /\ ~split.done
    /\ split' = [split EXCEPT
                    !.done = TRUE,
                    !.chunks = split_documents(<<split.text>>, split.chunk_size,
                                               split.chunk_overlap)]
    /\ UNCHANGED <<vs, disk, last, saved, merge, rw, app, rerank>>

NextSplit == SplitDocuments

SpecSplit == InitSplit /\ [][NextSplit]_vars

\* ------------------------------------- ingest.py, app.py, brain.py (index)
\* The ingestion entry points and the query side keep their index in a
\* LangChain FAISS store.  Its operations are the environment here: each
\* does what it is called for or raises.  An index directory is what the
\* entry points leave on disk: the chunks of the saved store, and whether
\* FAISS.load_local can read the directory back.
MaxIndex == 3

DefaultPath == "faiss_index"
Paths == {DefaultPath, "other_index"}

Directory(chunks, readable) ==
    [exists |-> TRUE, readable |-> readable, chunks |-> chunks]

\* what the environment does during one ingestion run: the outcome of the
\* fetch, the chunks the splitter makes of the fetched pages or of the docs
\* folder, and whether add_documents, from_documents and save_local return
IngestEnvs(names) ==
    [fetch : {"error", "empty", "pages"},
     chunks : {<<n>> : n \in names} \cup {<<n, n>> : n \in names},
     add_ok : BOOLEAN, build_ok : BOOLEAN, save_ok : BOOLEAN]

\* vectorstore.save_local(index_path): the directory holds the new store, or
\* the call raises and leaves a directory that cannot be read back
save_index(files, chunks, env) ==
    IF env.save_ok
    THEN [outcome |-> "returned", success |-> TRUE,
          files |-> [files EXCEPT ![DefaultPath] = Directory(chunks, TRUE)]]
    ELSE [outcome |-> "raised", success |-> FALSE,
          files |-> [files EXCEPT ![DefaultPath] = Directory(chunks, FALSE)]]

ingest_documents(files, env) ==
    IF ~env.build_ok
    THEN [outcome |-> "raised", success |-> FALSE, files |-> files]
    ELSE save_index(files, env.chunks, env)

ingest_from_confluence(files, merge_with_existing, env) ==
    LET existing == files[DefaultPath]
        Raised == [outcome |-> "raised", success |-> FALSE, files |-> files]
        Failed == [outcome |-> "returned", success |-> FALSE, files |-> files]
        FromDocs == IF env.build_ok
                    THEN save_index(files, env.chunks, env)
                    ELSE Raised
    IN  IF env.fetch = "error" THEN Failed
        ELSE IF env.fetch = "empty" THEN Failed
        ELSE IF merge_with_existing /\ existing.exists
             THEN IF existing.readable /\ env.add_ok
                  THEN save_index(files, existing.chunks \o env.chunks, env)
                  ELSE FromDocs
             ELSE FromDocs

load_faiss_index(vectorstore, files, index_path) ==
    IF vectorstore.present
    THEN [outcome |-> "ok", store |-> vectorstore, vectorstore |-> vectorstore]
    ELSE LET path == IF index_path = None THEN DefaultPath ELSE index_path IN
         IF ~files[path].exists
         THEN [outcome |-> "FileNotFoundError", store |-> NoVectorstore,
               vectorstore |-> vectorstore]
         ELSE IF ~files[path].readable
         THEN [outcome |-> "LoadError", store |-> NoVectorstore,
               vectorstore |-> vectorstore]
         ELSE LET loaded == [present |-> TRUE, path |-> path,
                             chunks |-> files[path].chunks]
              IN  [outcome |-> "ok", store |-> loaded, vectorstore |-> loaded]

\* what a call leaves in the record of the one that follows it
Before(a) == [op |-> a.call.op, success |-> a.call.success,
              had_cache |-> a.call.had_cache]

AppCall(a, op, outcome, success) ==
    [NoAppCall EXCEPT !.op = op, !.outcome = outcome, !.success = success,
                      !.previous = a.files[DefaultPath],
                      !.had_cache = a.vectorstore.present,
                      !.before = Before(a)]

\* a sync handler that leaves brain._vectorstore as it is
sync_handler_keeps_cache(a, configured, env) ==
    IF ~configured
    THEN [a EXCEPT !.call = AppCall(a, "sync", "not_configured", FALSE)]
    ELSE LET r == ingest_from_confluence(a.files, TRUE, env) IN
         [a EXCEPT !.files = r.files,
                   !.call = [AppCall(a, "sync", r.outcome, r.success) EXCEPT
                                !.merge = TRUE, !.new = env.chunks]]

\* the "Sync from Confluence" button of the sidebar
sync_handler(a, configured, env) ==
    IF ~configured
    THEN [a EXCEPT !.call = AppCall(a, "sync", "not_configured", FALSE)]
    ELSE LET r == ingest_from_confluence(a.files, TRUE, env) IN
         [a EXCEPT !.files = r.files,
                   !.vectorstore = IF r.outcome = "returned" /\ r.success
                                   THEN NoVectorstore ELSE @,
                   !.call = [AppCall(a, "sync", r.outcome, r.success) EXCEPT
                                !.merge = TRUE, !.new = env.chunks]]

\* the "Refresh Knowledge Base" button of the sidebar
refresh_handler(a, env) ==
    LET r == ingest_documents(a.files, env) IN
    [a EXCEPT !.files = r.files,
              !.vectorstore = IF r.outcome = "returned"
                              THEN NoVectorstore ELSE @,
              !.call = [AppCall(a, "refresh", r.outcome, r.success) EXCEPT
                           !.new = env.chunks]]

\* the merge of a run stays within MaxIndex chunks
WithinCap(a, merge_with_existing, env) ==
    (merge_with_existing /\ a.files[DefaultPath].exists)
        => Len(a.files[DefaultPath].chunks) + Len(env.chunks) <= MaxIndex

\* the process starts with no store in memory; the default path holds
\* nothing or an earlier ingestion of the docs folder, another path may hold
\* an index of its own
InitApp ==
    /\ vs = NoStore
    /\ disk = EmptyDir
    /\ last = NoCall
    /\ saved = NoStore
    /\ merge = NoMerge
    /\ rw = NoRW
    /\ split = NoSplit
    /\ rerank = NoRerank
    /\ \E d \in {NoDirectory, Directory(<<"d">>, TRUE)} :
       \E o \in {NoDirectory, Directory(<<"o">>, TRUE)} :
          app = [NoApp EXCEPT !.files = [p \in Paths |->
                                            IF p = DefaultPath THEN d ELSE o]]

SyncButton ==
    /\ \E configured \in BOOLEAN : \E env \in IngestEnvs({"c"}) :
          /\ WithinCap(app, TRUE, env)
          /\ app' = sync_handler(app, configured, env)
    /\ UNCHANGED <<vs, disk, last, saved, merge, rw, split, rerank>>

RefreshButton ==
    /\ \E env \in IngestEnvs({"d"}) : app' = refresh_handler(app, env)
    /\ UNCHANGED <<vs, disk, last, saved, merge, rw, split, rerank>>

\* ingest_from_confluence called as an entry point of its own
IngestFromConfluence ==
    /\ \E merge_with_existing \in BOOLEAN : \E env \in IngestEnvs({"c"}) :
          LET r == ingest_from_confluence(app.files, merge_with_existing, env) IN
          /\ WithinCap(app, merge_with_existing, env)
          /\ app' = [app EXCEPT
                        !.files = r.files,
                        !.call = [AppCall(app, "ingest_from_confluence",
                                          r.outcome, r.success) EXCEPT
                                     !.merge = merge_with_existing,
                                     !.new = env.chunks]]
    /\ UNCHANGED <<vs, disk, last, saved, merge, rw, split, rerank>>

LoadFaissIndex ==
    /\ \E index_path \in {None} \cup Paths :
          LET r == load_faiss_index(app.vectorstore, app.files, index_path) IN
          app' = [app EXCEPT
                     !.vectorstore = r.vectorstore,
                     !.call = [AppCall(app, "load_faiss_index", r.outcome,
                                       r.outcome = "ok") EXCEPT
                                  !.index_path = index_path,
                                  !.store = r.store]]
    /\ UNCHANGED <<vs, disk, last, saved, merge, rw, split, rerank>>

NextApp ==
    \/ SyncButton
    \/ RefreshButton
    \/ IngestFromConfluence
    \/ LoadFaissIndex

SpecApp == InitApp /\ [][NextApp]_vars

\* ------------------------------------------------- brain.py (rerank_chunks)
MaxDocs == 3

\* config.RERANKING_KEYWORDS: lower-cased, none of them empty
RERANKING_KEYWORDS == <<<<"a">>, <<"d", "d">>>>

\* the contents of retrieved chunks and the questions
PageContents == {<<>>, <<"x">>, <<"A">>, <<"d", "d">>, <<"a", "A">>,
                 <<"d", "D", "d">>}
Questions == {<<>>, <<"x", "d">>, <<"A">>, <<"x", "D", "d">>}

\* str.lower()
Lower(s) == [i \in DOMAIN s |-> IF s[i] = "A" THEN "a"
                                ELSE IF s[i] = "D" THEN "d" ELSE s[i]]

\* kw in s
Contains(s, kw) ==
    \E i \in 1..(Len(s) - Len(kw) + 1) : SubSeq(s, i, i + Len(kw) - 1) = kw

\* s.count(kw): the occurrences that do not overlap, from the left
RECURSIVE StrCount(_, _)
StrCount(s, kw) ==
    IF Len(s) < Len(kw) THEN 0
    ELSE IF SubSeq(s, 1, Len(kw)) = kw
         THEN 1 + StrCount(SubSeq(s, Len(kw) + 1, Len(s)), kw)
         ELSE StrCount(Tail(s), kw)

query_has_priority(question) ==
    \E i \in DOMAIN RERANKING_KEYWORDS :
        Contains(Lower(question), RERANKING_KEYWORDS[i])

RECURSIVE KeywordScore(_, _)
KeywordScore(content_lower, n) ==
    IF n = 0 THEN 0
    ELSE KeywordScore(content_lower, n - 1)
         + (IF Contains(content_lower, RERANKING_KEYWORDS[n])
            THEN StrCount(content_lower, RERANKING_KEYWORDS[n]) ELSE 0)

Score(doc) == KeywordScore(Lower(doc.page_content), Len(RERANKING_KEYWORDS))

\* a sort by score that puts a chunk before the earlier chunks of its score
sort_reverse_newest_first(scored_docs) ==
    LET Place(i) ==
            1 + Cardinality({j \in DOMAIN scored_docs :
                                scored_docs[j].score > scored_docs[i].score})
              + Cardinality({j \in DOMAIN scored_docs :
                                /\ j > i
                                /\ scored_docs[j].score = scored_docs[i].score})
    IN  [p \in DOMAIN scored_docs |->
            scored_docs[CHOOSE i \in DOMAIN scored_docs : Place(i) = p]]

\* scored_docs.sort(key=lambda x: x[0], reverse=True): list.sort is stable,
\* also with reverse=True, so an entry goes behind the entries of a higher
\* score and behind the earlier entries of its own score
sort_reverse(scored_docs) ==
    LET Place(i) ==
            1 + Cardinality({j \in DOMAIN scored_docs :
                                scored_docs[j].score > scored_docs[i].score})
              + Cardinality({j \in DOMAIN scored_docs :
                                /\ j < i
                                /\ scored_docs[j].score = scored_docs[i].score})
    IN  [p \in DOMAIN scored_docs |->
            scored_docs[CHOOSE i \in DOMAIN scored_docs : Place(i) = p]]

rerank_chunks(docs, question) ==
    IF ~query_has_priority(question) THEN docs
    ELSE LET scored_docs == [i \in DOMAIN docs |->
                                [score |-> Score(docs[i]), doc |-> docs[i]]]
             sorted == sort_reverse(scored_docs)
         IN  [i \in DOMAIN sorted |-> sorted[i].doc]

\* the chunks a search returned, in distance order, and the question
InitRerank ==
    /\ vs = NoStore
    /\ disk = EmptyDir
    /\ last = NoCall
    /\ saved = NoStore
    /\ merge = NoMerge
    /\ rw = NoRW
    /\ split = NoSplit
    /\ app = NoApp
    /\ \E n \in 0..MaxDocs : \E contents \in [1..n -> PageContents] :
       \E question \in Questions :
          rerank = [NoRerank EXCEPT
                       !.docs = [i \in 1..n |-> [page_content |-> contents[i]]],
                       !.question = question]

RerankChunks ==
    /\ ~rerank.done
    /\ rerank' = [rerank EXCEPT
                     !.done = TRUE,
                     !.result = rerank_chunks(rerank.docs, rerank.question)]
    /\ UNCHANGED <<vs, disk, last, saved, merge, rw, split, app>>

NextRerank == RerankChunks

SpecRerank == InitRerank /\ [][NextRerank]_vars

\* ------------------------------------------------------------------ claims
Dense(store) == DOMAIN store.docstore = 0..(ntotal(store) - 1)

\* C1: a completed from_documents on n chunks gives size n, and every
\* completed add_documents of m chunks adds m to the size, the Document Store
\* keys being exactly 0..size-1 after each of them (so the size is
\* n + sum(m_i) and every slot below it resolves to a chunk).
C1_SlotMonotonicity ==
    [][/\ (last'.op = "from_documents" /\ last'.outcome = "ok")
            => /\ ntotal(vs') = Len(last'.documents)
               /\ Dense(vs')
       /\ (last'.op = "add_documents" /\ last'.outcome = "ok" /\ Dense(vs))
            => /\ ntotal(vs') = ntotal(vs) + Len(last'.documents)
               /\ Dense(vs')]_vars

\* C2: after every from_documents or add_documents call that completes, the
\* Document Store has as many entries as the index has vectors.
C2_DocstoreMatchesIndex ==
    (last.op \in {"from_documents", "add_documents"} /\ last.outcome = "ok")
        => Cardinality(DOMAIN vs.docstore) = ntotal(vs)

\* C3: add_documents leaves every slot below the old size as it was (chunk,
\* mapping entry and vector) and writes only keys >= the old size.
C3_AddLeavesExistingSlots ==
    [][last'.op = "add_documents" =>
        LET old == ntotal(vs)
            Untouched(before, after) ==
                /\ \A key \in DOMAIN before :
                      key \in DOMAIN after /\ (key < old => after[key] = before[key])
                /\ \A key \in DOMAIN after :
                      (key \notin DOMAIN before \/ after[key] /= before[key])
                          => key >= old
        IN  /\ Len(vs'.vecs) >= old
            /\ \A s \in 0..(old - 1) : vs'.vecs[s + 1] = vs.vecs[s + 1]
            /\ Untouched(vs.docstore, vs'.docstore)
            /\ Untouched(vs.index_to_docstore_id, vs'.index_to_docstore_id)]_vars

\* an add_documents call has appended two chunks to a store that held some
C3_Witness ==
    /\ last.op = "add_documents" /\ last.outcome = "ok"
    /\ Len(last.documents) = 2
    /\ ntotal(vs) >= 3

\* C4: from_documents fails, and returns no store, whenever the provider
\* returns a number of rows different from the number of chunks.
C4_RowCountChecked ==
    (last.op = "from_documents" /\ last.reply \in {"empty", "rows"} /\ ~last.rows_match)
        => (last.outcome /= "ok" /\ ~vs.present)

\* C5: an add_documents call whose provider returns vectors of another
\* dimension than the index's fails with a dimension mismatch, and leaves the
\* size and the Document Store as they were.
C5_DimensionMismatch ==
    [][(last'.op = "add_documents" /\ last'.reply = "rows" /\ ~last'.dim_match)
        => /\ last'.outcome = "DimensionMismatch"
           /\ ntotal(vs') = ntotal(vs)
           /\ vs'.docstore = vs.docstore]_vars

\* an add_documents call has been refused for its vectors' dimension
C5_Witness ==
    /\ last.op = "add_documents" /\ last.outcome = "DimensionMismatch"
    /\ vs.present

C7_SearchIsExact ==
    (last.op = "similarity_search_with_score" /\ last.outcome = "ok" /\ Aligned(vs)) =>
        LET N == ntotal(vs)
            q == embed_query(last.query, vs.dim)
            dist(s) == SqDist(vs.vecs[s + 1], q)
            slots == 0..(N - 1)
            res == SearchResult
        IN  /\ Len(res) = Min(last.k, N)
            /\ \A i \in 1..Len(res) : \A j \in i..Len(res) :
                  res[i].distance <= res[j].distance
            /\ \A i \in 1..Len(res) :
                  /\ Cardinality({s \in slots : dist(s) < res[i].distance}) < i
                  /\ i <= Cardinality({s \in slots : dist(s) <= res[i].distance})
                  /\ \E s \in slots :
                        dist(s) = res[i].distance /\ vs.docstore[s] = res[i].doc
            /\ (\E s \in slots : vs.vecs[s + 1] = q) => res[1].distance = 0

\* a search with k below the size, on an aligned store that holds the query
C7_Witness ==
    /\ last.op = "similarity_search_with_score" /\ last.outcome = "ok"
    /\ Aligned(vs)
    /\ ntotal(vs) = MaxN /\ last.k < ntotal(vs)
    /\ \E s \in 1..ntotal(vs) : vs.vecs[s] = embed_query(last.query, vs.dim)
    /\ \E s \in 1..ntotal(vs) : vs.vecs[s] /= embed_query(last.query, vs.dim)

\* C8: a store saved with save_local and loaded with load_local has the same
\* size, the same chunk at every slot and the same search results for every
\* query and k.
C8_SaveLoadFidelity ==
    (last.op = "load_local" /\ last.outcome = "ok" /\ saved.present) =>
        /\ ntotal(vs) = ntotal(saved)
        /\ DOMAIN vs.docstore = DOMAIN saved.docstore
        /\ \A s \in DOMAIN saved.docstore :
              vs.docstore[s].content = saved.docstore[s].content
        /\ \A query \in Texts : \A k \in 1..MaxK :
              similarity_search_with_score(vs, query, k)
                  = similarity_search_with_score(saved, query, k)

\* a store of two chunks or more has been saved and loaded
C8_Witness ==
    /\ last.op = "load_local" /\ last.outcome = "ok" /\ saved.present
    /\ Aligned(saved) /\ ntotal(saved) >= 2

\* C9: from a saved index of n chunks, load_local, add_documents of m chunks,
\* save_local and load_local give an index of n + m chunks whose slots
\* 0..n-1 hold the original chunks and n..n+m-1 the new ones in order.
C9_IncrementalMerge ==
    merge.phase = "reloaded" =>
        LET n == Len(merge.base)
            m == Len(merge.new)
        IN  /\ ntotal(vs) = n + m
            /\ DOMAIN vs.docstore = 0..(n + m - 1)
            /\ \A s \in 0..(n - 1) : vs.docstore[s].content = merge.base[s + 1]
            /\ \A i \in 1..m : vs.docstore[n + i - 1].content = merge.new[i]

\* C10: load_local of the legacy shape with N records, each of them assigned
\* to a slot by the legacy mapping, gives a Document Store of N entries keyed
\* by slot, slot s holding the content of the record the legacy mapping
\* assigns to s.
C10_LegacyLoad ==
    (/\ last.op = "load_local" /\ last.outcome = "ok" /\ disk.meta.fmt = "tuple"
     /\ \A s \in DOMAIN disk.meta.index_to_docstore_id :
            disk.meta.index_to_docstore_id[s] \in DOMAIN disk.meta.docstore) =>
        LET records == disk.meta.docstore
            mapping == disk.meta.index_to_docstore_id
        IN  /\ Cardinality(DOMAIN vs.docstore) = Cardinality(DOMAIN records)
            /\ DOMAIN vs.docstore = DOMAIN mapping
            /\ \A s \in DOMAIN mapping :
                  vs.docstore[s].content = records[mapping[s]].content

\* a legacy directory of two records, in another order than their ids, has
\* been loaded and its records converted
C10_Witness ==
    /\ last.op = "load_local" /\ last.outcome = "ok" /\ disk.meta.fmt = "tuple"
    /\ DOMAIN vs.docstore = {0, 1}
    /\ vs.docstore[0] = OurDocument("b") /\ vs.docstore[1] = OurDocument("a")

\* a completed load_local of a directory of the legacy shape
LegacyLoaded ==
    /\ last.op = "load_local" /\ last.outcome = "ok"
    /\ disk.meta.state = "ok" /\ disk.meta.fmt = "tuple"

\* C11: after load_local of the legacy shape with N slots, the slot mapping
\* of the store is the identity on 0..N-1 (no opaque legacy id is left in it).
C11_MappingIsIdentity ==
    LegacyLoaded =>
        LET N == Cardinality(DOMAIN disk.meta.index_to_docstore_id) IN
        /\ DOMAIN vs.index_to_docstore_id = 0..(N - 1)
        /\ \A s \in 0..(N - 1) : vs.index_to_docstore_id[s] = s

\* the store load_local returns for the directory of the current shape that
\* holds the vectors of `index` and chunk content[s] at slot s
CurrentShapeStore(index, content) ==
    LET built == Store(index.dim, index.vecs,
                       [s \in DOMAIN content |-> OurDocument(content[s])],
                       [s \in DOMAIN content |-> s])
    IN  load_local(save_local(built, EmptyDir).dir, TRUE).store

\* C12: a store loaded from the legacy shape returns, for every query and k,
\* the result sequence of the store loaded from the current shape with the
\* same vectors and the same content at every slot.
C12_LegacyEquivalence ==
    LET records == disk.meta.docstore
        mapping == disk.meta.index_to_docstore_id
    IN  (/\ LegacyLoaded
         /\ \A s \in DOMAIN mapping :
               /\ mapping[s] \in DOMAIN records
               /\ records[mapping[s]].kind \in {"Direct", "Nested"}
               /\ records[mapping[s]].content /= None) =>
            LET current == CurrentShapeStore(disk.index,
                              [s \in DOMAIN mapping |-> records[mapping[s]].content])
            IN  \A query \in Texts : \A k \in 1..MaxK :
                    similarity_search_with_score(vs, query, k)
                        = similarity_search_with_score(current, query, k)

\* C13: after load_local of the legacy shape, every record of which some
\* layout (attribute first, nested dictionary next) yields a non-null content
\* is a current Chunk with the content of the first such layout.
C13_FirstLayoutWithContent ==
    LegacyLoaded =>
        LET records == disk.meta.docstore
            mapping == disk.meta.index_to_docstore_id
            FirstContent(r) ==
                IF HasAttribute(r) /\ AttributeValue(r) /= None THEN AttributeValue(r)
                ELSE IF HasNestedField(r) /\ NestedFieldValue(r) /= None
                     THEN NestedFieldValue(r)
                ELSE None
        IN  \A s \in {t \in DOMAIN mapping : mapping[t] \in DOMAIN records} :
                FirstContent(records[mapping[s]]) /= None
                    => /\ s \in DOMAIN vs.docstore
                       /\ vs.docstore[s] = OurDocument(FirstContent(records[mapping[s]]))

\* C14: load_local of a legacy directory completes whatever its records are
\* (it is refused only without allow_dangerous_deserialization), and the
\* slot of every record that cannot be normalised (no layout of it yields a
\* content) then holds a current Chunk, not the raw object of the record.
C14_UnrecognisedRecordDegrades ==
    (last.op = "load_local" /\ disk.meta.state = "ok" /\ disk.meta.fmt = "tuple") =>
        LET records == disk.meta.docstore
            mapping == disk.meta.index_to_docstore_id
            Normalisable(r) ==
                \/ HasAttribute(r) /\ AttributeValue(r) /= None
                \/ HasNestedField(r) /\ NestedFieldValue(r) /= None
        IN  /\ last.outcome \in {"ok", "ValueError"}
            /\ last.outcome = "ok" =>
                  \A s \in {t \in DOMAIN mapping : mapping[t] \in DOMAIN records} :
                      ~Normalisable(records[mapping[s]])
                          => /\ s \in DOMAIN vs.docstore
                             /\ vs.docstore[s].kind = "Our"

\* C16: load_local fails, and returns no store, when the directory holds the
\* index file without the metadata file, the metadata file without the index
\* file, or neither.
C16_PartialDirectoryFails ==
    [][(last'.op = "load_local" /\ (~disk.index.present \/ disk.meta.state = "none"))
        => (last'.outcome \in {"FileNotFoundError", "ValueError"} /\ vs' = vs)]_vars

\* load_local has failed on a directory that holds the index file only
C16_Witness ==
    /\ last.op = "load_local" /\ last.outcome = "FileNotFoundError"
    /\ disk.index.present /\ disk.meta.state = "none"

\* C17: a search whose query embedding the index accepts does not raise on a
\* store whose index and Document Store are not aligned: its results are the
\* hits of the index whose slot resolves to a chunk, a subsequence of the
\* index's answer in the index's order (distances do not decrease), and
\* similarity_search returns the chunks of the same results.
C17_SearchSkipsUnresolved ==
    (last.op = "similarity_search_with_score" /\ last.reply = "rows"
        /\ last.dim_match /\ HasIndex(vs)) =>
        /\ last.outcome = "ok"
        /\ LET hits == IndexSearch(vs.vecs, embed_query(last.query, vs.dim), last.k)
               res == SearchResult
               DocId(idx) == IF idx \in DOMAIN vs.index_to_docstore_id
                             THEN vs.index_to_docstore_id[idx] ELSE idx
               Resolves(hit) == hit.idx >= 0 /\ DocId(hit.idx) \in DOMAIN vs.docstore
           IN  /\ \A i \in 1..Len(res) : \A j \in i..Len(res) :
                     res[i].distance <= res[j].distance
               /\ \E pick \in [1..Len(res) -> 1..Len(hits)] :
                     /\ \A i \in 1..Len(res) : \A j \in 1..Len(res) :
                           i < j => pick[i] < pick[j]
                     /\ \A i \in 1..Len(res) :
                           /\ Resolves(hits[pick[i]])
                           /\ res[i].distance = hits[pick[i]].distance
                           /\ res[i].doc = vs.docstore[DocId(hits[pick[i]].idx)]
               /\ similarity_search(vs, last.query, last.k)
                     = [i \in 1..Len(res) |-> res[i].doc]

\* a search on an index of more vectors than chunks has returned a chunk and
\* left out a slot that has none
C17_Witness ==
    /\ last.op = "similarity_search_with_score" /\ last.outcome = "ok"
    /\ ntotal(vs) > Cardinality(DOMAIN vs.docstore)
    /\ last.k = ntotal(vs)
    /\ Len(SearchResult) >= 1 /\ Len(SearchResult) < last.k

\* C18: a search on a store that holds no vector returns an empty result
\* sequence and does not raise.
C18_EmptyIndexSearch ==
    (/\ last.op = "similarity_search_with_score" /\ last.reply = "rows"
     /\ last.dim_match /\ ntotal(vs) = 0) =>
        /\ last.outcome = "ok"
        /\ SearchResult = <<>>

\* C15: a load_local that runs beside save_local calls on the same directory
\* and completes has read an index file and a metadata file written by the
\* same save_local call.
C15_ReaderSeesOneSave ==
    (rw.reader.pc = "idle" /\ rw.reader.outcome = "ok")
        => rw.reader.seen.index = rw.reader.seen.meta

\* C19: for a document whose text has at most chunk_size characters,
\* split_documents returns exactly one chunk, whose content is the text.
C19_ChunkRoundTrip ==
    (split.done /\ Len(split.text) <= split.chunk_size)
        => split.chunks = <<split.text>>

\* C20: every chunk split_text returns has at most chunk_size characters
\* (chunk_overlap < chunk_size).
C20_ChunkSizeBound ==
    (split.done /\ split.chunk_overlap < split.chunk_size) =>
        \A i \in 1..Len(split.chunks) : Len(split.chunks[i]) <= split.chunk_size

\* C21: when a document yields two chunks or more, the last chunk_overlap
\* characters of every chunk (the whole chunk when it is shorter) are a
\* prefix of the chunk after it.
C21_OverlapContinuity ==
    (split.done /\ split.chunk_overlap < split.chunk_size) =>
        \A i \in 1..(Len(split.chunks) - 1) :
            LET chunk == split.chunks[i]
                next == split.chunks[i + 1]
                n == Min(split.chunk_overlap, Len(chunk))
                tail == SubSeq(chunk, Len(chunk) - n + 1, Len(chunk))
            IN  /\ Len(next) >= n
                /\ SubSeq(next, 1, n) = tail

\* C22: a splitter never splits a text with a chunk_overlap that is not
\* smaller than its chunk_size (such a configuration is rejected, or the
\* overlap is clamped, before any text is split).
C22_OverlapBelowChunkSize ==
    split.done => split.chunk_overlap < split.chunk_size

\* C23: no chunk that split_text or split_documents returns is empty or
\* holds whitespace only.
C23_NoBlankChunk ==
    split.done =>
        \A i \in 1..Len(split.chunks) :
            /\ Len(split.chunks[i]) > 0
            /\ ~StripsToEmpty(split.chunks[i])

\* a text that begins with a blank piece of its own has been split into
\* chunks
C23_Witness ==
    /\ split.done
    /\ Len(split.text) >= 3
    /\ split.text[1] \in Whitespace /\ split.text[2] \in Whitespace
    /\ Len(split.chunks) >= 1

\* C24: a search, completed or failed, leaves the vectors of the index, the
\* Document Store and the slot mapping as they were.
C24_SearchIsReadOnly ==
    [][last'.op = "similarity_search_with_score" => vs' = vs]_vars

\* a search has returned two results
C24_Witness ==
    /\ last.op = "similarity_search_with_score" /\ last.outcome = "ok"
    /\ Len(SearchResult) = 2

\* C28: a search returns every hit of the index whose slot resolves to an
\* entry of the Document Store, also when the keys of the store have gaps.
C28_EveryResolvableHit ==
    (last.op = "similarity_search_with_score" /\ last.outcome = "ok") =>
        LET hits == IndexSearch(vs.vecs, embed_query(last.query, vs.dim), last.k)
            DocId(idx) == IF idx \in DOMAIN vs.index_to_docstore_id
                          THEN vs.index_to_docstore_id[idx] ELSE idx
            resolvable == {i \in 1..Len(hits) :
                              hits[i].idx >= 0 /\ DocId(hits[i].idx) \in DOMAIN vs.docstore}
        IN  Len(SearchResult) = Cardinality(resolvable)

\* C29: after load_local succeeds, the keys of the store's Document Store
\* are exactly 0..index.ntotal-1.
C29_LoadedStoreIsAligned ==
    (last.op = "load_local" /\ last.outcome = "ok")
        => DOMAIN vs.docstore = 0..(ntotal(vs) - 1)

\* C25: after a call of ingest_from_confluence that returns success, the
\* saved index holds the chunks of the previous index followed by the new
\* Confluence chunks when merge_with_existing is true and a (readable) index
\* was on disk, and the new chunks alone when merge_with_existing is false.
C25_ConfluenceMerge ==
    (/\ app.call.op \in {"ingest_from_confluence", "sync"}
     /\ app.call.outcome = "returned" /\ app.call.success
     /\ (app.call.previous.exists => app.call.previous.readable)) =>
        app.files[DefaultPath].chunks =
            IF app.call.merge /\ app.call.previous.exists
            THEN app.call.previous.chunks \o app.call.new
            ELSE app.call.new

\* an ingestion or a sync the app ran to completion
Completed(call) ==
    \/ call.op = "refresh" /\ call.outcome = "returned"
    \/ call.op = "sync" /\ call.outcome = "returned" /\ call.success

\* C26: a handler of the app that ran its ingestion or sync to completion
\* leaves no cached index, and a load_faiss_index that finds no cached
\* index returns what the directory holds at that moment: no call is served
\* an index older than the last save the app completed.
C26_CacheInvalidated ==
    [][/\ Completed(app'.call) => ~app'.vectorstore.present
       /\ (/\ app'.call.op = "load_faiss_index" /\ app'.call.outcome = "ok"
           /\ ~app.vectorstore.present)
             => LET path == IF app'.call.index_path = None
                            THEN DefaultPath ELSE app'.call.index_path
                IN  /\ app'.call.store.path = path
                    /\ app'.call.store.chunks = app.files[path].chunks
                    /\ app'.vectorstore = app'.call.store]_vars

\* load_faiss_index() has reloaded the index after a sync that succeeded
\* while an older index was cached
C26_Witness ==
    /\ app.call.op = "load_faiss_index" /\ app.call.outcome = "ok"
    /\ app.call.index_path = None
    /\ app.call.before.op = "sync" /\ app.call.before.success
    /\ app.call.before.had_cache
    /\ Len(app.call.store.chunks) >= 2

\* C27: rerank_chunks returns its input when the question holds no priority
\* keyword; otherwise the result is a permutation of the input in
\* descending order of keyword score, the chunks of one score in the order
\* they had in the input.
C27_Rerank ==
    rerank.done =>
        LET docs == rerank.docs
            result == rerank.result
            mentioned == \E i \in DOMAIN RERANKING_KEYWORDS :
                            Contains(Lower(rerank.question), RERANKING_KEYWORDS[i])
        IN  IF ~mentioned THEN result = docs
            ELSE /\ Len(result) = Len(docs)
                 /\ \A i, j \in DOMAIN result :
                        i < j => Score(result[i]) >= Score(result[j])
                 /\ \A i \in DOMAIN docs :
                        SelectSeq(result, LAMBDA d : Score(d) = Score(docs[i]))
                          = SelectSeq(docs, LAMBDA d : Score(d) = Score(docs[i]))

\* three chunks have been reranked: the first scored lowest, the other two
\* scored the same with different contents
C27_Witness ==
    /\ rerank.done /\ Len(rerank.docs) = 3
    /\ query_has_priority(rerank.question)
    /\ Score(rerank.docs[1]) < Score(rerank.docs[2])
    /\ Score(rerank.docs[2]) = Score(rerank.docs[3])
    /\ rerank.docs[2] /= rerank.docs[3]
    /\ rerank.result /= rerank.docs

\* C30: load_faiss_index(index_path) returns a store loaded from index_path
\* (from the default path when index_path is None).
C30_LoadsFromGivenPath ==
    (app.call.op = "load_faiss_index" /\ app.call.outcome = "ok") =>
        app.call.store.path = IF app.call.index_path = None
                              THEN DefaultPath ELSE app.call.index_path

====
